---- MODULE Spec2Model ----
(***************************************************************************)
(* The notebook lensless_imager/01_09_2024_mi_vs_classification_plots_     *)
(* updated_mi_cifar10.ipynb as a state machine.                            *)
(*                                                                         *)
(* State: the artifact files on disk, the kernel namespace (the notebook's *)
(* global variables), the next cell of the notebook and the outcome of the *)
(* run. One action per code cell; an exception ends the cell where it is   *)
(* raised, keeps every assignment made before it, and stops the run.       *)
(*                                                                         *)
(* Numbers. Trial values are integers (a fixed-point view of the floats in *)
(* the .npy files). Means and percentiles are exact rationals <<n, d>> in  *)
(* lowest terms with d > 0; NaN is <<0, 0>>.                               *)
(*                                                                         *)
(* numpy is the numpy the notebook's imports need (>= 1.24): np.array and  *)
(* np.min of arrays of unequal length raise ValueError, np.min and np.max  *)
(* of a zero-size array raise ValueError, np.mean of a zero-size array is  *)
(* NaN (a RuntimeWarning, no exception), float division by zero is inf or  *)
(* NaN (a RuntimeWarning, no exception).                                   *)
(***************************************************************************)
EXTENDS Integers, Sequences, FiniteSets, TLC

VARIABLES
    disk,                               \* path -> array of per-trial scalars
    loads,                              \* path -> number of np.load calls that read it
    pc,                                 \* index in Cells of the next cell
    executed,                           \* the cells that were run
    outcome,                            \* "ok" or the exception that stopped the run
    defined,                            \* names bound in the kernel namespace
    gaussian_mi_estimates_across_psfs,
    pixelcnn_mi_estimates_across_psfs,
    gaussian_across_photons,
    pixelcnn_across_photons,
    classifier_all_trials_across_psfs,
    classifier_across_photons,
    classifier_across_psfs,
    photon_level,
    photon_level_idx,
    mi_photon_val,
    estimator_type,
    valid_psfs,
    valid_photon_counts,
    marker_scatter,                     \* the plt.plot calls and legend of the two figures of the last marker_list scatter cell
    scatter                             \* the ax.scatter, ax.plot and ax.fill_between calls and legend of the last scatter figure

vars == <<disk, loads, pc, executed, outcome, defined,
          gaussian_mi_estimates_across_psfs, pixelcnn_mi_estimates_across_psfs,
          gaussian_across_photons, pixelcnn_across_photons,
          classifier_all_trials_across_psfs, classifier_across_photons,
          classifier_across_psfs, photon_level, photon_level_idx, mi_photon_val,
          estimator_type, valid_psfs, valid_photon_counts, scatter, marker_scatter>>

(***************************************************************************)
(* Bounds of the model.                                                    *)
(***************************************************************************)
\* longest trial array in a file
MaxTrials == 2
\* largest trial value; the values are -1 .. MaxVal
MaxVal == 3
\* largest outlier ratio threshold the clip is checked with (the notebook uses 2)
MaxThreshold == 3
\* most reads of one file in a session: the mean-plot cell is run again while
\* every file has been read fewer times than this
MaxLoads == 3

TrialValues == {-1} \cup (0 .. MaxVal)

RECURSIVE SeqsUpTo(_, _)
SeqsUpTo(S, n) ==
    IF n = 0 THEN {<<>>}
    ELSE LET shorter == SeqsUpTo(S, n - 1)
         IN  shorter \cup {Append(s, x) : s \in {t \in shorter : Len(t) = n - 1}, x \in S}

TrialArrays == SeqsUpTo(TrialValues, MaxTrials)

(***************************************************************************)
(* Setup cell: the fixed label sets.                                       *)
(***************************************************************************)
bias == 10
mean_photon_count_list == <<20, 40, 60, 80, 100, 150, 200, 250, 300>>
psf_names == <<"one", "four", "diffuser">>
estimators == <<"gaussian", "pixelcnn">>

(***************************************************************************)
(* Artifact paths, as the cells format them.                               *)
(***************************************************************************)
mi_path(estimator, photon_count, psf_name) ==
    "cifar10_mi_estimates/" \o estimator \o "_mi_estimate_" \o ToString(photon_count)
        \o "_photon_count_" \o psf_name \o "_psf.npy"

\* classifier_path with the psf name left out of the format
classifier_path_without_psf(photon_count, psf_name, bias_, model) ==
    "classifier_results/cifar_test_accuracy_" \o ToString(photon_count)
        \o "_mean_photon_count_psf_" \o ToString(bias_)
        \o "_bias_" \o model \o "_model.npy"

classifier_path(photon_count, psf_name, bias_, model) ==
    "classifier_results/cifar_test_accuracy_" \o ToString(photon_count)
        \o "_mean_photon_count_" \o psf_name \o "_psf_" \o ToString(bias_)
        \o "_bias_" \o model \o "_model.npy"

PhotonIdx == 1 .. Len(mean_photon_count_list)
PsfIdx == 1 .. Len(psf_names)

MIPaths(estimator) ==
    {mi_path(estimator, mean_photon_count_list[c], psf_names[p]) : c \in PhotonIdx, p \in PsfIdx}
ClassifierPaths ==
    {classifier_path(mean_photon_count_list[c], psf_names[p], bias, "cnn") : c \in PhotonIdx, p \in PsfIdx}
AllPaths == MIPaths("gaussian") \cup MIPaths("pixelcnn") \cup ClassifierPaths

(***************************************************************************)
(* Arithmetic on sequences and exact rationals.                            *)
(***************************************************************************)
RECURSIVE GCD(_, _)
GCD(a, b) == IF b = 0 THEN a ELSE GCD(b, a % b)

Abs(a) == IF a < 0 THEN -a ELSE a

NaN == <<0, 0>>

\* n / d in lowest terms, d # 0
Rat(n, d) ==
    LET g == GCD(Abs(n), Abs(d))
        s == IF d < 0 THEN -1 ELSE 1
    IN  <<(s * n) \div g, (s * d) \div g>>

FromInt(a) == <<a, 1>>
RatAdd(x, y) == Rat(x[1] * y[2] + y[1] * x[2], x[2] * y[2])
RatSub(x, y) == Rat(x[1] * y[2] - y[1] * x[2], x[2] * y[2])
RatMul(x, y) == Rat(x[1] * y[1], x[2] * y[2])
RatDivInt(x, k) == Rat(x[1], x[2] * k)
RatLeq(x, y) == x[1] * y[2] <= y[1] * x[2]

RECURSIVE Sum(_)
Sum(v) == IF v = <<>> THEN 0 ELSE v[1] + Sum(Tail(v))

RECURSIVE np_min(_)
np_min(v) ==
    IF Len(v) = 1 THEN v[1]
    ELSE LET m == np_min(Tail(v)) IN IF v[1] < m THEN v[1] ELSE m

RECURSIVE np_max(_)
np_max(v) ==
    IF Len(v) = 1 THEN v[1]
    ELSE LET m == np_max(Tail(v)) IN IF v[1] > m THEN v[1] ELSE m

(***************************************************************************)
(* Robust aggregation.                                                     *)
(***************************************************************************)
\* np.max(v) / np.min(v) > t in float arithmetic, v not empty: a division by
\* zero is inf for a positive numerator and NaN for zero, and NaN > t is False
ratio_exceeds(v, t) ==
    LET hi == np_max(v)
        lo == np_min(v)
    IN  IF lo > 0 THEN hi > t * lo
        ELSE IF lo < 0 THEN hi < t * lo
        ELSE hi > 0

\* outlier_clip with the mask taken against the maximum: nothing is clipped
outlier_clip_mask_on_max(v, t) ==
    IF ratio_exceeds(v, t)
    THEN [i \in 1 .. Len(v) |-> IF v[i] > t * np_max(v) THEN np_min(v) ELSE v[i]]
    ELSE v

\* outlier_clip that clamps an outlier to the threshold instead of the minimum
outlier_clip_to_threshold(v, t) ==
    IF ratio_exceeds(v, t)
    THEN [i \in 1 .. Len(v) |-> IF v[i] > t * np_min(v) THEN t * np_min(v) ELSE v[i]]
    ELSE v

\* outlier_clip that zeroes an outlier instead of setting it to the minimum
outlier_clip_fill_zero(v, t) ==
    IF ratio_exceeds(v, t)
    THEN [i \in 1 .. Len(v) |-> IF v[i] > t * np_min(v) THEN 0 ELSE v[i]]
    ELSE v

\* the outlier clip of the mean-plot cell on a freshly loaded, non-empty array
outlier_clip(v, t) ==
    IF ratio_exceeds(v, t)
    THEN [i \in 1 .. Len(v) |-> IF v[i] > t * np_min(v) THEN np_min(v) ELSE v[i]]
    ELSE v

ratio_threshold == 2

\* v in ascending order: element i goes to its rank, the number of elements
\* before it in the order (ties by position)
Sort(v) ==
    LET n == Len(v)
        rank == [i \in 1 .. n |->
                   1 + Cardinality({j \in 1 .. n : v[j] < v[i] \/ (v[j] = v[i] /\ j < i)})]
    IN  [k \in 1 .. n |-> v[CHOOSE i \in 1 .. n : rank[i] = k]]

\* np_mean that divides by one more than the count
np_mean_count_off_by_one(v) == IF Len(v) = 0 THEN NaN ELSE Rat(Sum(v), Len(v) + 1)

\* np.mean of a 1-d array: the sum over the count, NaN for a zero-size array
np_mean(v) == IF Len(v) = 0 THEN NaN ELSE Rat(Sum(v), Len(v))

\* np.percentile(v, q), v not empty, q a rational in 0 .. 100: linear
\* interpolation between the order statistics around q/100 * (n - 1)
np_percentile(v, q) ==
    LET s == Sort(v)
        n == Len(v)
        D == 100 * q[2]
        pos == q[1] * (n - 1)
        lo == pos \div D
        rem == pos % D
        hi == IF lo + 1 < n THEN lo + 1 ELSE lo
    IN  Rat(s[lo + 1] * D + rem * (s[hi + 1] - s[lo + 1]), D)

\* the percentile ranks of the scatter cell's error band
upper_rank(confidence_level_) ==
    RatDivInt(RatMul(FromInt(100), RatAdd(FromInt(1), confidence_level_)), 2)
\* lower_rank of a one-sided interval: 100 * (1 - confidence_level)
lower_rank_one_sided(confidence_level_) ==
    RatMul(FromInt(100), RatSub(FromInt(1), confidence_level_))

lower_rank(confidence_level_) ==
    RatSub(FromInt(100), upper_rank(confidence_level_))

\* confidence_level = 0.9
confidence_level == <<9, 10>>

\* np.min(rows, axis=1) of a list of 1-d arrays
np_min_axis1(rows) ==
    IF \E i, j \in 1 .. Len(rows) : Len(rows[i]) # Len(rows[j])
    THEN [err |-> "ValueError", val |-> <<>>]
    ELSE IF Len(rows[1]) = 0
    THEN [err |-> "ValueError", val |-> <<>>]
    ELSE [err |-> "ok", val |-> [i \in 1 .. Len(rows) |-> np_min(rows[i])]]

\* minimum_aggregate that reduces with the maximum
maximum_aggregate(values_per_condition) ==
    LET mins == np_min_axis1(values_per_condition)
    IN  IF mins.err # "ok" THEN mins
        ELSE [err |-> "ok",
              val |-> [i \in 1 .. Len(values_per_condition) |-> np_max(values_per_condition[i])]]

\* minimum_aggregate of the specification: np.min over the trials of each condition
minimum_aggregate(values_per_condition) == np_min_axis1(values_per_condition)

\* confidence_bars of lensless_helpers, which is not part of the sources: the
\* central estimate of each condition, EmptyInputError for an empty condition.
\* The bounds depend on a default confidence level the call does not pass.
confidence_bars(values_per_condition, num_trials) ==
    IF \E i \in 1 .. Len(values_per_condition) : Len(values_per_condition[i]) = 0
    THEN [err |-> "EmptyInputError", mean |-> <<>>]
    ELSE [err |-> "ok",
          mean |-> [i \in 1 .. Len(values_per_condition) |-> np_mean(values_per_condition[i])]]

(***************************************************************************)
(* The cells, in notebook order.                                           *)
(***************************************************************************)
Cells == <<"min_plot", "mean_plot", "classifier_load", "classifier_plot",
           "bar", "scatter_subsampled", "scatter_all", "scatter_params", "scatter">>

CellAt(name) == CHOOSE k \in 1 .. Len(Cells) : Cells[k] = name

\* the run is at cell `name` and runs it
Run(name) ==
    /\ outcome = "ok"
    /\ pc <= Len(Cells)
    /\ Cells[pc] = name
    /\ executed' = executed \cup {name}

\* the run goes on to the next cell, or stops at the cell that raised
Advance(err) == pc' = IF err = "ok" THEN pc + 1 ELSE pc

\* np.load: the reads of a cell, in order, added to the per-file counts
RECURSIVE CountLoadsFrom(_, _, _)
CountLoadsFrom(counts, read, i) ==
    IF i > Len(read) THEN counts
    ELSE CountLoadsFrom([counts EXCEPT ![read[i]] = @ + 1], read, i + 1)
CountLoads(read) == CountLoadsFrom(loads, read, 1)

(***************************************************************************)
(* Minimum plot cell.                                                      *)
(***************************************************************************)
\* the loop over photon counts of one psf; acc holds the two accumulators,
\* the files read so far and the exception, if any
RECURSIVE min_plot_photons(_, _)
min_plot_photons(psf_name, acc) ==
    LET c == Len(acc.gaussian) + 1
    IN  IF c > Len(mean_photon_count_list) THEN acc
        ELSE LET gaussian_file == mi_path("gaussian", mean_photon_count_list[c], psf_name)
                 pixelcnn_file == mi_path("pixelcnn", mean_photon_count_list[c], psf_name)
             IN  IF gaussian_file \notin DOMAIN disk
                 THEN [acc EXCEPT !.err = "FileNotFoundError"]
                 ELSE IF pixelcnn_file \notin DOMAIN disk
                 THEN [acc EXCEPT !.read = Append(@, gaussian_file),
                                  !.err = "FileNotFoundError"]
                 ELSE min_plot_photons(psf_name,
                        [gaussian |-> Append(acc.gaussian, disk[gaussian_file]),
                         pixelcnn |-> Append(acc.pixelcnn, disk[pixelcnn_file]),
                         read |-> acc.read \o <<gaussian_file, pixelcnn_file>>,
                         err |-> "ok"])

\* the loop over psfs; st holds the two grids, the accumulators of the psf
\* reached, the files read so far and the exception, if any
RECURSIVE min_plot_psfs(_)
min_plot_psfs(st) ==
    LET p == Len(st.gaussian_grid) + 1
    IN  IF p > Len(psf_names) THEN st
        ELSE LET row == min_plot_photons(psf_names[p],
                            [gaussian |-> <<>>, pixelcnn |-> <<>>, read |-> st.read, err |-> "ok"])
                 gaussian_mins == minimum_aggregate(row.gaussian)
                 pixelcnn_mins == minimum_aggregate(row.pixelcnn)
                 stopped(err) == [st EXCEPT !.gaussian = row.gaussian, !.pixelcnn = row.pixelcnn,
                                            !.read = row.read, !.err = err]
             IN  IF row.err # "ok" THEN stopped(row.err)
                 ELSE IF gaussian_mins.err # "ok" THEN stopped(gaussian_mins.err)
                 ELSE IF pixelcnn_mins.err # "ok" THEN stopped(pixelcnn_mins.err)
                 ELSE min_plot_psfs(
                        [gaussian_grid |-> Append(st.gaussian_grid, gaussian_mins.val),
                         pixelcnn_grid |-> Append(st.pixelcnn_grid, pixelcnn_mins.val),
                         gaussian |-> row.gaussian, pixelcnn |-> row.pixelcnn,
                         read |-> row.read, err |-> "ok"])

MinPlotCell ==
    /\ Run("min_plot")
    /\ LET st == min_plot_psfs([gaussian_grid |-> <<>>, pixelcnn_grid |-> <<>>,
                                gaussian |-> <<>>, pixelcnn |-> <<>>,
                                read |-> <<>>, err |-> "ok"])
       IN  /\ gaussian_mi_estimates_across_psfs' = st.gaussian_grid
           /\ pixelcnn_mi_estimates_across_psfs' = st.pixelcnn_grid
           /\ gaussian_across_photons' = st.gaussian
           /\ pixelcnn_across_photons' = st.pixelcnn
           /\ loads' = CountLoads(st.read)
           /\ outcome' = st.err
           /\ Advance(st.err)
    /\ defined' = defined \cup {"gaussian_mi_estimates_across_psfs",
                                "pixelcnn_mi_estimates_across_psfs",
                                "gaussian_across_photons", "pixelcnn_across_photons"}
    /\ UNCHANGED <<disk, classifier_all_trials_across_psfs, classifier_across_photons,
                   classifier_across_psfs, photon_level, photon_level_idx, mi_photon_val,
                   estimator_type, valid_psfs, valid_photon_counts, scatter, marker_scatter>>

(***************************************************************************)
(* Mean plot cell.                                                         *)
(***************************************************************************)
\* the loop over photon counts of one psf, with the outlier clip on the
\* freshly loaded pixelcnn array; np.max of a zero-size array raises
RECURSIVE mean_plot_photons(_, _)
mean_plot_photons(psf_name, acc) ==
    LET c == Len(acc.gaussian) + 1
    IN  IF c > Len(mean_photon_count_list) THEN acc
        ELSE LET gaussian_file == mi_path("gaussian", mean_photon_count_list[c], psf_name)
                 pixelcnn_file == mi_path("pixelcnn", mean_photon_count_list[c], psf_name)
             IN  IF gaussian_file \notin DOMAIN disk
                 THEN [acc EXCEPT !.err = "FileNotFoundError"]
                 ELSE IF pixelcnn_file \notin DOMAIN disk
                 THEN [acc EXCEPT !.read = Append(@, gaussian_file),
                                  !.err = "FileNotFoundError"]
                 ELSE IF Len(disk[pixelcnn_file]) = 0
                 THEN [acc EXCEPT !.read = @ \o <<gaussian_file, pixelcnn_file>>,
                                  !.err = "ValueError"]
                 ELSE mean_plot_photons(psf_name,
                        [gaussian |-> Append(acc.gaussian, disk[gaussian_file]),
                         pixelcnn |-> Append(acc.pixelcnn,
                                             outlier_clip(disk[pixelcnn_file], ratio_threshold)),
                         read |-> acc.read \o <<gaussian_file, pixelcnn_file>>,
                         err |-> "ok"])

\* the loop over psfs from psf p on; the accumulators are rebound for each psf
RECURSIVE mean_plot_psfs(_, _)
mean_plot_psfs(p, st) ==
    IF p > Len(psf_names) THEN st
    ELSE LET row == mean_plot_photons(psf_names[p],
                        [gaussian |-> <<>>, pixelcnn |-> <<>>, read |-> st.read, err |-> "ok"])
             bars == confidence_bars(row.gaussian, 9)
             bars_2 == confidence_bars(row.pixelcnn, 9)
             reached(err) == [gaussian |-> row.gaussian, pixelcnn |-> row.pixelcnn,
                              read |-> row.read, err |-> err]
         IN  IF row.err # "ok" THEN reached(row.err)
             ELSE IF bars.err # "ok" THEN reached(bars.err)
             ELSE IF bars_2.err # "ok" THEN reached(bars_2.err)
             ELSE mean_plot_psfs(p + 1, reached("ok"))

\* mean_plot_cell that saves the clipped arrays of the last psf over their files
mean_plot_cell_saves_clip(in_turn) ==
    /\ LET st == mean_plot_psfs(1, [gaussian |-> <<>>, pixelcnn |-> <<>>,
                                    read |-> <<>>, err |-> "ok"])
           saved == {c \in 1 .. Len(st.pixelcnn) :
                       mi_path("pixelcnn", mean_photon_count_list[c],
                               psf_names[Len(psf_names)]) \in DOMAIN disk}
       IN  /\ gaussian_across_photons' = st.gaussian
           /\ pixelcnn_across_photons' = st.pixelcnn
           /\ loads' = CountLoads(st.read)
           /\ outcome' = st.err
           /\ pc' = IF in_turn /\ st.err = "ok" THEN pc + 1 ELSE pc
           /\ disk' = [f \in DOMAIN disk |->
                         IF \E c \in saved :
                              f = mi_path("pixelcnn", mean_photon_count_list[c],
                                          psf_names[Len(psf_names)])
                         THEN st.pixelcnn[CHOOSE c \in saved :
                                 f = mi_path("pixelcnn", mean_photon_count_list[c],
                                             psf_names[Len(psf_names)])]
                         ELSE disk[f]]
    /\ defined' = defined \cup {"gaussian_across_photons", "pixelcnn_across_photons"}
    /\ UNCHANGED <<gaussian_mi_estimates_across_psfs, pixelcnn_mi_estimates_across_psfs,
                   classifier_all_trials_across_psfs, classifier_across_photons,
                   classifier_across_psfs, photon_level, photon_level_idx, mi_photon_val,
                   estimator_type, valid_psfs, valid_photon_counts, scatter, marker_scatter>>

\* the statements of the mean-plot cell, run in turn or again later
mean_plot_cell(in_turn) ==
    /\ LET st == mean_plot_psfs(1, [gaussian |-> <<>>, pixelcnn |-> <<>>,
                                    read |-> <<>>, err |-> "ok"])
       IN  /\ gaussian_across_photons' = st.gaussian
           /\ pixelcnn_across_photons' = st.pixelcnn
           /\ loads' = CountLoads(st.read)
           /\ outcome' = st.err
           /\ pc' = IF in_turn /\ st.err = "ok" THEN pc + 1 ELSE pc
    /\ defined' = defined \cup {"gaussian_across_photons", "pixelcnn_across_photons"}
    /\ UNCHANGED <<disk, gaussian_mi_estimates_across_psfs, pixelcnn_mi_estimates_across_psfs,
                   classifier_all_trials_across_psfs, classifier_across_photons,
                   classifier_across_psfs, photon_level, photon_level_idx, mi_photon_val,
                   estimator_type, valid_psfs, valid_photon_counts, scatter, marker_scatter>>

MeanPlotCell ==
    /\ Run("mean_plot")
    /\ mean_plot_cell(TRUE)

\* the mean-plot cell run again, out of turn, at any point after its place
RerunMeanPlotCell ==
    /\ outcome = "ok"
    /\ pc > CellAt("mean_plot")
    /\ \A f \in DOMAIN loads : loads[f] < MaxLoads
    /\ executed' = executed \cup {"mean_plot"}
    /\ mean_plot_cell(FALSE)

(***************************************************************************)
(* Classifier load cell and classifier plot cell.                          *)
(***************************************************************************)
\* classifier_photons that puts each result in front of the earlier ones
RECURSIVE classifier_photons_prepend(_, _)
classifier_photons_prepend(psf_name, acc) ==
    LET c == Len(acc.results) + 1
    IN  IF c > Len(mean_photon_count_list) THEN acc
        ELSE LET file == classifier_path(mean_photon_count_list[c], psf_name, bias, "cnn")
             IN  IF file \notin DOMAIN disk
                 THEN [acc EXCEPT !.err = "FileNotFoundError"]
                 ELSE classifier_photons_prepend(psf_name,
                        [results |-> <<disk[file]>> \o acc.results,
                         read |-> Append(acc.read, file), err |-> "ok"])

\* the loop over photon counts of one psf, shared in shape by both cells
RECURSIVE classifier_photons(_, _)
classifier_photons(psf_name, acc) ==
    LET c == Len(acc.results) + 1
    IN  IF c > Len(mean_photon_count_list) THEN acc
        ELSE LET file == classifier_path(mean_photon_count_list[c], psf_name, bias, "cnn")
             IN  IF file \notin DOMAIN disk
                 THEN [acc EXCEPT !.err = "FileNotFoundError"]
                 ELSE classifier_photons(psf_name,
                        [results |-> Append(acc.results, disk[file]),
                         read |-> Append(acc.read, file), err |-> "ok"])

\* np.array of a list of arrays: ValueError unless all have one shape
Shape(a) == IF a = <<>> THEN <<0>> ELSE <<Len(a), Len(a[1])>>
np_array(rows) ==
    IF \E i, j \in 1 .. Len(rows) : Len(rows[i]) # Len(rows[j]) THEN "ValueError" ELSE "ok"
np_array_of_arrays(grids) ==
    IF \E i, j \in 1 .. Len(grids) : Shape(grids[i]) # Shape(grids[j]) THEN "ValueError" ELSE "ok"

RECURSIVE classifier_load_psfs(_)
classifier_load_psfs(st) ==
    LET p == Len(st.grid) + 1
    IN  IF p > Len(psf_names)
        THEN [st EXCEPT !.err = np_array_of_arrays(st.grid)]
        ELSE LET row == classifier_photons(psf_names[p],
                            [results |-> <<>>, read |-> st.read, err |-> "ok"])
                 stopped(err) == [st EXCEPT !.results = row.results, !.read = row.read,
                                            !.err = err]
             IN  IF row.err # "ok" THEN stopped(row.err)
                 ELSE IF np_array(row.results) # "ok" THEN stopped(np_array(row.results))
                 ELSE classifier_load_psfs(
                        [grid |-> Append(st.grid, row.results), results |-> row.results,
                         read |-> row.read, err |-> "ok"])

ClassifierLoadCell ==
    /\ Run("classifier_load")
    /\ LET st == classifier_load_psfs([grid |-> <<>>, results |-> <<>>,
                                       read |-> <<>>, err |-> "ok"])
       IN  /\ classifier_all_trials_across_psfs' = st.grid
           /\ classifier_across_photons' = st.results
           /\ loads' = CountLoads(st.read)
           /\ outcome' = st.err
           /\ Advance(st.err)
    /\ defined' = defined \cup {"classifier_all_trials_across_psfs", "classifier_across_photons"}
    /\ UNCHANGED <<disk, gaussian_mi_estimates_across_psfs, pixelcnn_mi_estimates_across_psfs,
                   gaussian_across_photons, pixelcnn_across_photons,
                   classifier_across_psfs, photon_level, photon_level_idx, mi_photon_val,
                   estimator_type, valid_psfs, valid_photon_counts, scatter, marker_scatter>>

RECURSIVE classifier_plot_psfs(_)
classifier_plot_psfs(st) ==
    LET p == Len(st.grid) + 1
    IN  IF p > Len(psf_names) THEN st
        ELSE LET row == classifier_photons(psf_names[p],
                            [results |-> <<>>, read |-> st.read, err |-> "ok"])
                 bars == confidence_bars(row.results, 9)
                 stopped(err) == [st EXCEPT !.results = row.results, !.read = row.read,
                                            !.err = err]
             IN  IF row.err # "ok" THEN stopped(row.err)
                 ELSE IF bars.err # "ok" THEN stopped(bars.err)
                 ELSE classifier_plot_psfs(
                        [grid |-> Append(st.grid, bars.mean), results |-> row.results,
                         read |-> row.read, err |-> "ok"])

ClassifierPlotCell ==
    /\ Run("classifier_plot")
    /\ LET st == classifier_plot_psfs([grid |-> <<>>, results |-> <<>>,
                                       read |-> <<>>, err |-> "ok"])
       IN  /\ classifier_across_psfs' = st.grid
           /\ classifier_across_photons' = st.results
           /\ loads' = CountLoads(st.read)
           /\ outcome' = st.err
           /\ Advance(st.err)
    /\ defined' = defined \cup {"classifier_across_psfs", "classifier_across_photons"}
    /\ UNCHANGED <<disk, gaussian_mi_estimates_across_psfs, pixelcnn_mi_estimates_across_psfs,
                   gaussian_across_photons, pixelcnn_across_photons,
                   classifier_all_trials_across_psfs, photon_level, photon_level_idx, mi_photon_val,
                   estimator_type, valid_psfs, valid_photon_counts, scatter, marker_scatter>>

(***************************************************************************)
(* Bar chart cells: the MI of every psf at one photon level.               *)
(***************************************************************************)
\* np.argwhere(np.array(mean_photon_count_list) == photon_level): the 0-based
\* positions that hold photon_level, in order
RECURSIVE np_argwhere(_, _, _)
np_argwhere(list, x, from) ==
    IF from > Len(list) THEN <<>>
    ELSE (IF list[from] = x THEN <<from - 1>> ELSE <<>>) \o np_argwhere(list, x, from + 1)

\* the photon levels the bar cell is run with: the one written in the
\* notebook and one that is no entry of mean_photon_count_list
PhotonLevelInputs == {300, 50}

BarCell ==
    /\ Run("bar")
    /\ "pixelcnn_mi_estimates_across_psfs" \in defined
    /\ photon_level' \in PhotonLevelInputs
    /\ LET found == np_argwhere(mean_photon_count_list, photon_level', 1)
       IN  IF found = <<>>
           THEN /\ outcome' = "IndexError"
                /\ Advance("IndexError")
                /\ defined' = defined \cup {"photon_level"}
                /\ UNCHANGED <<photon_level_idx, mi_photon_val, marker_scatter>>
           ELSE /\ photon_level_idx' = found[1]
                /\ mi_photon_val' = [p \in 1 .. Len(pixelcnn_mi_estimates_across_psfs) |->
                                       pixelcnn_mi_estimates_across_psfs[p][found[1] + 1]]
                /\ defined' = defined \cup {"photon_level", "photon_level_idx",
                                            "mi_photon_val"}
                /\ outcome' = "ok"
                /\ Advance("ok")
    /\ UNCHANGED <<disk, loads, gaussian_mi_estimates_across_psfs,
                   pixelcnn_mi_estimates_across_psfs, gaussian_across_photons,
                   pixelcnn_across_photons, classifier_all_trials_across_psfs,
                   classifier_across_photons, classifier_across_psfs,
                   estimator_type, valid_psfs, valid_photon_counts, scatter, marker_scatter>>

(***************************************************************************)
(* Scatter figures drawn with marker_list: one figure per MI estimator,    *)
(* accuracy means of the classifier plot cell against the MI minimums.     *)
(***************************************************************************)
marker_list == <<"^", "s", "D">>
psf_name_labels == <<"One Lens", "Four Lens", "Diffuser">>
max_photon_count == mean_photon_count_list[Len(mean_photon_count_list)]

\* inferno = plt.cm.get_cmap('inferno', max_photon_count) called with an
\* integer: the entry of that index in a table of max_photon_count colors,
\* the last entry for an index past the table
inferno(index) ==
    [colormap |-> "inferno", levels |-> max_photon_count,
     at |-> <<IF index > max_photon_count - 1 THEN max_photon_count - 1 ELSE index>>]

\* [i for i in range(n) if i % mod_idx_plot == mod_idx_shift], from `from` on
RECURSIVE select_indices(_, _, _, _)
select_indices(from, n, mod_idx_plot, mod_idx_shift) ==
    IF from >= n THEN <<>>
    ELSE (IF from % mod_idx_plot = mod_idx_shift THEN <<from>> ELSE <<>>)
         \o select_indices(from + 1, n, mod_idx_plot, mod_idx_shift)

\* the loop over photon levels from photon index c on: the markers drawn
RECURSIVE marker_points(_, _, _, _, _)
marker_points(mi_estimate_list, c, points, mod_idx_plot, mod_idx_shift) ==
    IF c > Len(mean_photon_count_list) THEN points
    ELSE LET idx == np_argwhere(mean_photon_count_list, mean_photon_count_list[c], 1)[1]
             drawn == IF idx % mod_idx_plot = mod_idx_shift
                      THEN [i \in 1 .. Len(psf_name_labels) |->
                              [psf_idx |-> i - 1,
                               photon_count |-> mean_photon_count_list[idx + 1],
                               x |-> mi_estimate_list[i][idx + 1],
                               y |-> classifier_across_psfs[i][idx + 1],
                               marker |-> marker_list[i],
                               color |-> inferno(mean_photon_count_list[idx + 1])]]
                      ELSE <<>>
         IN  marker_points(mi_estimate_list, c + 1, points \o drawn,
                           mod_idx_plot, mod_idx_shift)

\* the dashed line of each psf through its selected photon indices
marker_lines(mi_estimate_list, mod_idx_plot, mod_idx_shift) ==
    [p \in PsfIdx |->
       LET classification_accuracy_across_photons_fixed_psf == classifier_across_psfs[p]
           mi_psf_val == mi_estimate_list[p]
           accuracy_indices == select_indices(0, Len(classification_accuracy_across_photons_fixed_psf),
                                              mod_idx_plot, mod_idx_shift)
           mi_indices == select_indices(0, Len(mi_psf_val), mod_idx_plot, mod_idx_shift)
       IN  [psf_idx |-> p - 1,
            x |-> [k \in 1 .. Len(mi_indices) |-> mi_psf_val[mi_indices[k] + 1]],
            y |-> [k \in 1 .. Len(accuracy_indices) |->
                     classification_accuracy_across_photons_fixed_psf[accuracy_indices[k] + 1]]]]

marker_figure(mi_estimate_list, mod_idx_plot, mod_idx_shift) ==
    [legend |-> [i \in 1 .. Len(psf_name_labels) |->
                   [label |-> psf_name_labels[i], marker |-> marker_list[i]]],
     points |-> marker_points(mi_estimate_list, 1, <<>>, mod_idx_plot, mod_idx_shift),
     lines |-> marker_lines(mi_estimate_list, mod_idx_plot, mod_idx_shift)]

\* one of the two marker_list scatter cells; its loops rebind photon_level,
\* photon_level_idx and mi_photon_val
marker_scatter_cell(mod_idx_plot, mod_idx_shift) ==
    /\ {"gaussian_mi_estimates_across_psfs", "pixelcnn_mi_estimates_across_psfs",
        "classifier_across_psfs"} \subseteq defined
    /\ marker_scatter' =
         [mi_idx \in 1 .. 2 |->
            marker_figure(<<gaussian_mi_estimates_across_psfs,
                            pixelcnn_mi_estimates_across_psfs>>[mi_idx],
                          mod_idx_plot, mod_idx_shift)]
    /\ photon_level' = mean_photon_count_list[Len(mean_photon_count_list)]
    /\ photon_level_idx' = Len(mean_photon_count_list) - 1
    /\ mi_photon_val' = [p \in 1 .. Len(pixelcnn_mi_estimates_across_psfs) |->
                           pixelcnn_mi_estimates_across_psfs[p][Len(mean_photon_count_list)]]
    /\ defined' = defined \cup {"photon_level", "photon_level_idx", "mi_photon_val"}
    /\ outcome' = "ok"
    /\ Advance("ok")
    /\ UNCHANGED <<disk, loads, gaussian_mi_estimates_across_psfs,
                   pixelcnn_mi_estimates_across_psfs, gaussian_across_photons,
                   pixelcnn_across_photons, classifier_all_trials_across_psfs,
                   classifier_across_photons, classifier_across_psfs,
                   estimator_type, valid_psfs, valid_photon_counts, scatter>>

\* mod_idx_plot = 3, mod_idx_shift = 2
SubsampledScatterCell ==
    /\ Run("scatter_subsampled")
    /\ marker_scatter_cell(3, 2)

\* mod_idx_plot = 1, mod_idx_shift = 0
AllPointsScatterCell ==
    /\ Run("scatter_all")
    /\ marker_scatter_cell(1, 0)

(***************************************************************************)
(* Scatter figure with the classifier's confidence band.                   *)
(***************************************************************************)
min_photons_per_pixel == np_min(mean_photon_count_list)
max_photons_per_pixel == np_max(mean_photon_count_list)

\* colormap((log_photons - min_log_photons) / (max_log_photons - min_log_photons)):
\* the color of the truncated inferno map at log(p / min) / log(max / min),
\* kept as <<p, min, max>>
color_for_photon_level(photons_per_pixel) ==
    [colormap |-> "trunc(inferno,0.00,0.88)", levels |-> 256,
     at |-> <<photons_per_pixel, min_photons_per_pixel, max_photons_per_pixel>>]

\* the legend entries drawn after the loops
scatter_legend ==
    <<[label |-> "One Lens", marker |-> "o"],
      [label |-> "Four Lens", marker |-> "s"],
      [label |-> "Diffuser", marker |-> "*"]>>

marker_for_psf(psf_name) ==
    CASE psf_name = "one" -> "o"
      [] psf_name = "four" -> "s"
      [] psf_name = "diffuser" -> "*"
      [] psf_name = "uc" -> "x"
      [] psf_name = "two" -> "d"
      [] OTHER -> "UnboundLocalError"

\* x in list, for a Python list
InList(x, list) == \E i \in 1 .. Len(list) : list[i] = x

\* the parameter cell: as written the first time, as written the second
\* time, and two edits of it (valid_psfs numbered as its comment says, and a
\* photon count that is no entry of mean_photon_count_list)
ScatterParamInputs ==
    {[estimator_type |-> 1, valid_psfs |-> <<0, 1, 2>>,
      valid_photon_counts |-> mean_photon_count_list],
     [estimator_type |-> 1, valid_psfs |-> <<0, 1, 2>>,
      valid_photon_counts |-> <<20, 40, 80, 150, 300>>],
     [estimator_type |-> 0, valid_psfs |-> <<1, 2, 3>>,
      valid_photon_counts |-> mean_photon_count_list],
     [estimator_type |-> 0, valid_psfs |-> <<0, 1, 2>>,
      valid_photon_counts |-> <<20, 50, 300>>]}

ScatterParamsCell ==
    /\ Run("scatter_params")
    /\ \E params \in ScatterParamInputs :
         /\ estimator_type' = params.estimator_type
         /\ valid_psfs' = params.valid_psfs
         /\ valid_photon_counts' = params.valid_photon_counts
    /\ defined' = defined \cup {"estimator_type", "valid_psfs", "valid_photon_counts"}
    /\ outcome' = "ok"
    /\ Advance("ok")
    /\ UNCHANGED <<disk, loads, gaussian_mi_estimates_across_psfs,
                   pixelcnn_mi_estimates_across_psfs, gaussian_across_photons,
                   pixelcnn_across_photons, classifier_all_trials_across_psfs,
                   classifier_across_photons, classifier_across_psfs,
                   photon_level, photon_level_idx, mi_photon_val, scatter, marker_scatter>>

mi_estimate_lists == <<gaussian_mi_estimates_across_psfs, pixelcnn_mi_estimates_across_psfs>>
mi_list_use == mi_estimate_lists[estimator_type + 1]

\* np.percentile of a zero-size array is NaN or raises IndexError, by numpy version
PercentileOfEmpty == {"nan", "IndexError"}

\* scatter_photons that appends the MI value before the test on valid_photon_counts
RECURSIVE scatter_photons_mi_before_filter(_, _, _, _)
scatter_photons_mi_before_filter(p, c, acc, percentile_of_empty) ==
    IF c > Len(mean_photon_count_list) THEN acc
    ELSE IF ~InList(mean_photon_count_list[c], valid_photon_counts)
    THEN scatter_photons_mi_before_filter(p, c + 1,
           [acc EXCEPT !.mi = Append(@, mi_list_use[p][c])], percentile_of_empty)
    ELSE LET photon_count == mean_photon_count_list[c]
             mi_value == mi_list_use[p][c]
             classifier_10_trials == classifier_all_trials_across_psfs[p][c]
             classifier_mean == np_mean(classifier_10_trials)
             marker == marker_for_psf(psf_names[p])
             color == color_for_photon_level(photon_count)
             point == [psf_name |-> psf_names[p], psf_idx |-> p - 1,
                       photon_count |-> photon_count, color |-> color,
                       x |-> mi_value, y |-> classifier_mean, marker |-> marker]
             drawn == [acc EXCEPT !.points = Append(@, point),
                                  !.mi = Append(@, mi_value),
                                  !.means = Append(@, classifier_mean)]
         IN  IF marker = "UnboundLocalError"
             THEN [acc EXCEPT !.err = "UnboundLocalError"]
             ELSE IF Len(classifier_10_trials) = 0
             THEN IF percentile_of_empty = "IndexError"
                  THEN [drawn EXCEPT !.err = "IndexError"]
                  ELSE scatter_photons_mi_before_filter(p, c + 1,
                         [drawn EXCEPT !.lower = Append(@, NaN), !.upper = Append(@, NaN)],
                         percentile_of_empty)
             ELSE scatter_photons_mi_before_filter(p, c + 1,
                    [drawn EXCEPT
                       !.lower = Append(@, np_percentile(classifier_10_trials,
                                                         lower_rank(confidence_level))),
                       !.upper = Append(@, np_percentile(classifier_10_trials,
                                                         upper_rank(confidence_level)))],
                    percentile_of_empty)

\* the loop over photon counts for psf p, from photon index c on; acc holds
\* the four lists of the psf, the points drawn so far and the exception, if any
RECURSIVE scatter_photons(_, _, _, _)
scatter_photons(p, c, acc, percentile_of_empty) ==
    IF c > Len(mean_photon_count_list) THEN acc
    ELSE IF ~InList(mean_photon_count_list[c], valid_photon_counts)
    THEN scatter_photons(p, c + 1, acc, percentile_of_empty)
    ELSE LET photon_count == mean_photon_count_list[c]
             mi_value == mi_list_use[p][c]
             classifier_10_trials == classifier_all_trials_across_psfs[p][c]
             classifier_mean == np_mean(classifier_10_trials)
             marker == marker_for_psf(psf_names[p])
             color == color_for_photon_level(photon_count)
             point == [psf_name |-> psf_names[p], psf_idx |-> p - 1,
                       photon_count |-> photon_count, color |-> color,
                       x |-> mi_value, y |-> classifier_mean, marker |-> marker]
             drawn == [acc EXCEPT !.points = Append(@, point),
                                  !.mi = Append(@, mi_value),
                                  !.means = Append(@, classifier_mean)]
         IN  IF marker = "UnboundLocalError"
             THEN [acc EXCEPT !.err = "UnboundLocalError"]
             ELSE IF Len(classifier_10_trials) = 0
             THEN IF percentile_of_empty = "IndexError"
                  THEN [drawn EXCEPT !.err = "IndexError"]
                  ELSE scatter_photons(p, c + 1,
                         [drawn EXCEPT !.lower = Append(@, NaN), !.upper = Append(@, NaN)],
                         percentile_of_empty)
             ELSE scatter_photons(p, c + 1,
                    [drawn EXCEPT
                       !.lower = Append(@, np_percentile(classifier_10_trials,
                                                         lower_rank(confidence_level))),
                       !.upper = Append(@, np_percentile(classifier_10_trials,
                                                         upper_rank(confidence_level)))],
                    percentile_of_empty)

\* the loop over psfs from psf p on (psf_idx = p - 1); fig holds the calls
\* made on the axes so far
RECURSIVE scatter_psfs(_, _, _)
scatter_psfs(p, fig, percentile_of_empty) ==
    IF p > Len(psf_names) THEN fig
    ELSE IF ~InList(p - 1, valid_psfs) THEN scatter_psfs(p + 1, fig, percentile_of_empty)
    ELSE LET row == scatter_photons(p, 1,
                        [mi |-> <<>>, means |-> <<>>, lower |-> <<>>, upper |-> <<>>,
                         points |-> fig.points, err |-> "ok"],
                        percentile_of_empty)
         IN  IF row.err # "ok"
             THEN [fig EXCEPT !.points = row.points, !.err = row.err]
             ELSE scatter_psfs(p + 1,
                    [points |-> row.points,
                     lines |-> Append(fig.lines,
                                 [psf_name |-> psf_names[p], x |-> row.mi, y |-> row.means]),
                     bands |-> Append(fig.bands,
                                 [psf_name |-> psf_names[p], x |-> row.mi,
                                  lower |-> row.lower, upper |-> row.upper]),
                     err |-> "ok"],
                    percentile_of_empty)

NoFigure == [points |-> <<>>, lines |-> <<>>, bands |-> <<>>, legend |-> <<>>]

ScatterCell ==
    /\ Run("scatter")
    /\ {"gaussian_mi_estimates_across_psfs", "pixelcnn_mi_estimates_across_psfs",
        "classifier_all_trials_across_psfs", "estimator_type", "valid_psfs",
        "valid_photon_counts"} \subseteq defined
    /\ \E percentile_of_empty \in PercentileOfEmpty :
         LET fig == scatter_psfs(1, [points |-> <<>>, lines |-> <<>>, bands |-> <<>>,
                                     err |-> "ok"], percentile_of_empty)
         IN  /\ scatter' = [points |-> fig.points, lines |-> fig.lines, bands |-> fig.bands,
                             legend |-> IF fig.err = "ok" THEN scatter_legend ELSE <<>>]
             /\ outcome' = fig.err
             /\ Advance(fig.err)
    /\ defined' = defined \cup {"scatter"}
    /\ UNCHANGED <<disk, loads, gaussian_mi_estimates_across_psfs,
                   pixelcnn_mi_estimates_across_psfs, gaussian_across_photons,
                   pixelcnn_across_photons, classifier_all_trials_across_psfs,
                   classifier_across_photons, classifier_across_psfs,
                   photon_level, photon_level_idx, mi_photon_val, estimator_type,
                   valid_psfs, valid_photon_counts, marker_scatter>>

(***************************************************************************)
(* The two plot cells that only redraw loaded data may be left out of a    *)
(* run: no cell modelled here reads a name that only they bind.            *)
(***************************************************************************)
OptionalCells == {"mean_plot", "classifier_plot"}
\* the cells that read classifier_across_psfs are left out along with the
\* classifier plot cell, which binds it
DependentCells == {"scatter_subsampled", "scatter_all"}

SkipCell ==
    /\ outcome = "ok"
    /\ pc <= Len(Cells)
    /\ \/ Cells[pc] \in OptionalCells
       \/ Cells[pc] \in DependentCells /\ "classifier_across_psfs" \notin defined
    /\ pc' = pc + 1
    /\ UNCHANGED <<disk, loads, executed, outcome, defined,
                   gaussian_mi_estimates_across_psfs, pixelcnn_mi_estimates_across_psfs,
                   gaussian_across_photons, pixelcnn_across_photons,
                   classifier_all_trials_across_psfs, classifier_across_photons,
                   classifier_across_psfs, photon_level, photon_level_idx, mi_photon_val,
                   estimator_type, valid_psfs, valid_photon_counts, scatter, marker_scatter>>

(***************************************************************************)
(* The artifacts on disk when the run starts: every file holds BaseTrials, *)
(* except the files of one scope, which are missing or hold one other      *)
(* array. The scope is all the files of one kind (the array is then any    *)
(* array of TrialArrays), or one file, or the files of one kind for one    *)
(* psf (the array is then empty, BaseTrials with one trial more, or one    *)
(* trial of another value).                                                *)
(***************************************************************************)
BaseTrials == <<1>>

KindPath(kind, c, p) ==
    IF kind = "classifier"
    THEN classifier_path(mean_photon_count_list[c], psf_names[p], bias, "cnn")
    ELSE mi_path(kind, mean_photon_count_list[c], psf_names[p])

Kinds == {"gaussian", "pixelcnn", "classifier"}

KindScopes == {{KindPath(k, c, p) : c \in PhotonIdx, p \in PsfIdx} : k \in Kinds}
PartScopes ==
    {{f} : f \in AllPaths}
    \cup {{KindPath(k, c, p) : c \in PhotonIdx} : k \in Kinds, p \in PsfIdx}

PartArrays == {<<>>, <<MaxVal>>, BaseTrials \o BaseTrials}

Init ==
    /\ \E scope \in KindScopes \cup PartScopes :
         \/ disk = [f \in AllPaths \ scope |-> BaseTrials]
         \/ \E content \in IF scope \in KindScopes THEN TrialArrays ELSE PartArrays :
              disk = [f \in AllPaths |-> IF f \in scope THEN content ELSE BaseTrials]
    /\ loads = [f \in AllPaths |-> 0]
    /\ pc = 1
    /\ executed = {}
    /\ outcome = "ok"
    /\ defined = {}
    /\ gaussian_mi_estimates_across_psfs = <<>>
    /\ pixelcnn_mi_estimates_across_psfs = <<>>
    /\ gaussian_across_photons = <<>>
    /\ pixelcnn_across_photons = <<>>
    /\ classifier_all_trials_across_psfs = <<>>
    /\ classifier_across_photons = <<>>
    /\ classifier_across_psfs = <<>>
    /\ photon_level = 0
    /\ photon_level_idx = 0
    /\ mi_photon_val = <<>>
    /\ estimator_type = 0
    /\ valid_psfs = <<>>
    /\ valid_photon_counts = <<>>
    /\ marker_scatter = <<>>
    /\ scatter = NoFigure

Next ==
    \/ MinPlotCell
    \/ MeanPlotCell
    \/ RerunMeanPlotCell
    \/ ClassifierLoadCell
    \/ ClassifierPlotCell
    \/ BarCell
    \/ SubsampledScatterCell
    \/ AllPointsScatterCell
    \/ ScatterParamsCell
    \/ ScatterCell
    \/ SkipCell

Spec == Init /\ [][Next]_vars

(***************************************************************************)
(* Properties.                                                             *)
(***************************************************************************)
Range(v) == {v[i] : i \in 1 .. Len(v)}
Least(v) == CHOOSE x \in Range(v) : \A y \in Range(v) : x <= y
Greatest(v) == CHOOSE x \in Range(v) : \A y \in Range(v) : x >= y

MinPlotDone == "min_plot" \in executed /\ pc > CellAt("min_plot")
MeanPlotDone == "mean_plot" \in executed /\ pc > CellAt("mean_plot")

\* the file of estimator e for photon index c and psf index p
MIFile(e, p, c) == disk[mi_path(e, mean_photon_count_list[c], psf_names[p])]
\* the pixelcnn file whose clipped array is entry c of pixelcnn_across_photons
\* once the mean-plot cell has finished
ClippedFile(c) == MIFile("pixelcnn", Len(psf_names), c)

\* the distinct arrays the files hold
Contents == {disk[f] : f \in DOMAIN disk}
NonEmptyContents == Contents \ {<<>>}
Thresholds == 2 .. MaxThreshold

RatioBounded(v, r, t) == Least(v) > 0 => Greatest(r) <= t * Least(r)

\* C1: after the outlier clip of an array v with min(v) > 0 and a threshold
\* t > 1, max(result) <= t * min(result): for the arrays the mean-plot cell
\* clipped (t = 2) and for the clip of every file at every threshold.
C1_ClipBoundsRatio ==
    /\ MeanPlotDone =>
         \A c \in PhotonIdx :
           RatioBounded(ClippedFile(c), pixelcnn_across_photons[c], ratio_threshold)
    /\ \A v \in NonEmptyContents, t \in Thresholds :
         RatioBounded(v, outlier_clip(v, t), t)

C1_Witness ==
    /\ MeanPlotDone
    /\ \E c \in PhotonIdx :
         /\ Least(ClippedFile(c)) > 0
         /\ Greatest(ClippedFile(c)) > ratio_threshold * Least(ClippedFile(c))
         /\ pixelcnn_across_photons[c] # ClippedFile(c)

ClipOf(v, r, t) ==
    Least(v) > 0 =>
      /\ Len(r) = Len(v)
      /\ \A i \in 1 .. Len(v) :
           r[i] = IF Greatest(v) > t * Least(v) /\ v[i] > t * Least(v)
                  THEN Least(v) ELSE v[i]

\* C2: the clip of positive scalars keeps length and order; when max/min > t
\* every element above t * min becomes min and the others are unchanged,
\* otherwise the array is unchanged.
C2_ClipReplacesOutliersByMin ==
    /\ MeanPlotDone =>
         /\ Len(pixelcnn_across_photons) = Len(mean_photon_count_list)
         /\ \A c \in PhotonIdx :
              ClipOf(ClippedFile(c), pixelcnn_across_photons[c], ratio_threshold)
    /\ \A v \in NonEmptyContents, t \in Thresholds :
         ClipOf(v, outlier_clip(v, t), t)

C2_Witness ==
    /\ MeanPlotDone
    /\ \E c \in PhotonIdx :
         LET v == ClippedFile(c)
             r == pixelcnn_across_photons[c]
         IN  /\ Least(v) > 0
             /\ \E i, j \in 1 .. Len(v) :
                  /\ v[i] > ratio_threshold * Least(v)
                  /\ r[i] = Least(v)
                  /\ i # j
                  /\ r[j] = v[j]

\* C3: when min(values) <= 0 the clip is skipped and the array is left as it
\* was loaded.
C3_ClipSkippedWhenMinNotPositive ==
    MeanPlotDone =>
      \A c \in PhotonIdx :
        Least(ClippedFile(c)) <= 0 => pixelcnn_across_photons[c] = ClippedFile(c)

IsLeast(x, v) == x \in Range(v) /\ \A y \in Range(v) : x <= y

\* C4: minimum_aggregate returns one value per condition, in condition order:
\* entry c is an element of the trials of condition c and <= each of them;
\* [[5,3,9],[2,8,1]] gives [3,1].
C4_MinimumPerCondition ==
    /\ MinPlotDone =>
         /\ Len(gaussian_mi_estimates_across_psfs) = Len(psf_names)
         /\ Len(pixelcnn_mi_estimates_across_psfs) = Len(psf_names)
         /\ \A p \in PsfIdx :
              /\ Len(gaussian_mi_estimates_across_psfs[p]) = Len(mean_photon_count_list)
              /\ Len(pixelcnn_mi_estimates_across_psfs[p]) = Len(mean_photon_count_list)
              /\ \A c \in PhotonIdx :
                   /\ IsLeast(gaussian_mi_estimates_across_psfs[p][c], MIFile("gaussian", p, c))
                   /\ IsLeast(pixelcnn_mi_estimates_across_psfs[p][c], MIFile("pixelcnn", p, c))
    /\ minimum_aggregate(<<<<5, 3, 9>>, <<2, 8, 1>>>>) = [err |-> "ok", val |-> <<3, 1>>]

C4_Witness ==
    /\ MinPlotDone
    /\ \E p \in PsfIdx, c \in PhotonIdx :
         /\ Len(MIFile("pixelcnn", p, c)) > 1
         /\ pixelcnn_mi_estimates_across_psfs[p][c] < Greatest(MIFile("pixelcnn", p, c))
         /\ pixelcnn_mi_estimates_across_psfs[p][c] # MIFile("pixelcnn", p, c)[1]

ScatterDone == "scatter" \in executed /\ pc > CellAt("scatter")

ClassifierFile(p, c) ==
    disk[classifier_path(mean_photon_count_list[c], psf_names[p], bias, "cnn")]

PsfIndex(name) == CHOOSE p \in PsfIdx : psf_names[p] = name

\* the psfs and photon counts the parameter cell selects, and the k-th of each
PlottedPsfs == {p \in PsfIdx : \E i \in 1 .. Len(valid_psfs) : valid_psfs[i] = p - 1}
SelectedIdx ==
    {c \in PhotonIdx :
       \E i \in 1 .. Len(valid_photon_counts) : valid_photon_counts[i] = mean_photon_count_list[c]}
KthOf(S, k) == CHOOSE x \in S : Cardinality({y \in S : y <= x}) = k

\* the k-th smallest trial of v, by counting
OrderStat(v, k) ==
    CHOOSE x \in Range(v) :
      /\ Cardinality({i \in 1 .. Len(v) : v[i] < x}) < k
      /\ Cardinality({i \in 1 .. Len(v) : v[i] <= x}) >= k

\* r is the q-th percentile of v (q a whole percent), linearly interpolated
IsPercentile(r, v, q) ==
    LET lo == (q * (Len(v) - 1)) \div 100
        rem == (q * (Len(v) - 1)) % 100
        a == OrderStat(v, lo + 1)
        b == IF rem = 0 THEN a ELSE OrderStat(v, lo + 2)
    IN  r[2] > 0 /\ r[1] * 100 = (100 * a + rem * (b - a)) * r[2]

IsMean(r, v) == r[2] > 0 /\ r[1] * Len(v) = Sum(v) * r[2]

Sample100 == [i \in 1 .. 100 |-> i]
Sample100Lower == np_percentile(Sample100, lower_rank(confidence_level))
Sample100Upper == np_percentile(Sample100, upper_rank(confidence_level))

\* C5: the scatter cell's band has three parallel sequences (lower, upper,
\* central) with one entry per selected condition, in condition order; the
\* central estimate is the mean of the condition's trials and the bounds are
\* its 5th and 95th percentiles (confidence_level = 0.9); on the sample
\* 1..100 they are 5.95 and 95.05.
C5_ConfidenceInterval ==
    /\ ScatterDone =>
         /\ Len(scatter.bands) = Cardinality(PlottedPsfs)
         /\ Len(scatter.lines) = Cardinality(PlottedPsfs)
         /\ \A b \in 1 .. Len(scatter.bands) :
              LET band == scatter.bands[b]
                  line == scatter.lines[b]
                  p == KthOf(PlottedPsfs, b)
              IN  /\ band.psf_name = psf_names[p]
                  /\ line.psf_name = psf_names[p]
                  /\ Len(band.lower) = Cardinality(SelectedIdx)
                  /\ Len(band.upper) = Cardinality(SelectedIdx)
                  /\ Len(line.y) = Cardinality(SelectedIdx)
                  /\ \A k \in 1 .. Cardinality(SelectedIdx) :
                       LET trials == ClassifierFile(p, KthOf(SelectedIdx, k))
                       IN  trials # <<>> =>
                             /\ IsMean(line.y[k], trials)
                             /\ IsPercentile(band.lower[k], trials, 5)
                             /\ IsPercentile(band.upper[k], trials, 95)
    /\ Sample100Lower = <<119, 20>>
    /\ Sample100Upper = <<1901, 20>>

C5_Witness ==
    /\ ScatterDone
    /\ Cardinality(SelectedIdx) \in 2 .. Len(mean_photon_count_list) - 1
    /\ \E b \in 1 .. Len(scatter.bands) :
         \E k \in 1 .. Len(scatter.bands[b].lower) :
           /\ scatter.bands[b].lower[k] # scatter.bands[b].upper[k]
           /\ scatter.bands[b].lower[k][2] > 1

ConfidenceLevels == {<<1, 2>>, <<9, 10>>, <<19, 20>>, <<99, 100>>}

\* C6: for a condition with a single trial, lower = upper = central = that
\* trial, for every confidence level.
C6_SingleTrialCollapses ==
    /\ ScatterDone =>
         \A b \in 1 .. Len(scatter.bands) :
           \A k \in 1 .. Cardinality(SelectedIdx) :
             LET trials == ClassifierFile(KthOf(PlottedPsfs, b), KthOf(SelectedIdx, k))
             IN  Len(trials) = 1 =>
                   /\ scatter.bands[b].lower[k] = FromInt(trials[1])
                   /\ scatter.bands[b].upper[k] = FromInt(trials[1])
                   /\ scatter.lines[b].y[k] = FromInt(trials[1])
    /\ \A v \in Contents, level \in ConfidenceLevels :
         Len(v) = 1 =>
           /\ np_percentile(v, lower_rank(level)) = FromInt(v[1])
           /\ np_percentile(v, upper_rank(level)) = FromInt(v[1])
           /\ np_mean(v) = FromInt(v[1])

C6_Witness ==
    /\ ScatterDone
    /\ \E b \in 1 .. Len(scatter.bands) :
         \E k \in 1 .. Cardinality(SelectedIdx) :
           LET trials == ClassifierFile(KthOf(PlottedPsfs, b), KthOf(SelectedIdx, k))
           IN  /\ Len(trials) = 1
               /\ trials[1] > 1
               /\ scatter.bands[b].lower[k] = scatter.bands[b].upper[k]

\* C7: an aggregation over a condition with an empty trial list ends in an
\* error; no aggregate holds a NaN for that condition.
C7_EmptyTrialsRaise ==
    /\ MinPlotDone =>
         \A e \in {"gaussian", "pixelcnn"}, p \in PsfIdx, c \in PhotonIdx :
           MIFile(e, p, c) # <<>>
    /\ \A i \in 1 .. Len(scatter.points) : scatter.points[i].y # NaN

ResultGrids ==
    <<gaussian_mi_estimates_across_psfs, pixelcnn_mi_estimates_across_psfs,
      classifier_all_trials_across_psfs, classifier_across_psfs>>

\* C8: a load pass that ends in the missing-file error leaves the result
\* grids and accumulators as they were before the pass began, and nothing
\* is loaded after it.
C8_MissingFileLeavesNoPartialState ==
    [][/\ outcome' = "FileNotFoundError" => ResultGrids' = ResultGrids
       /\ outcome = "FileNotFoundError" => loads' = loads]_vars

ClassifierLoadDone == "classifier_load" \in executed /\ pc > CellAt("classifier_load")

\* C9: an artifact whose trial count differs from the trial count of the
\* other artifacts of its kind ends the load in an error: no load pass
\* finishes over files of unequal trial counts.
C9_TrialCountMismatchRaises ==
    /\ MinPlotDone =>
         \A e \in {"gaussian", "pixelcnn"}, p, q \in PsfIdx, c, d \in PhotonIdx :
           Len(MIFile(e, p, c)) = Len(MIFile(e, q, d))
    /\ ClassifierLoadDone =>
         \A p, q \in PsfIdx, c, d \in PhotonIdx :
           Len(ClassifierFile(p, c)) = Len(ClassifierFile(q, d))

\* psf names that are in no label set
OutsidePsfNames == {"lens", ""}

\* C10: a lookup keyed by a psf or a photon count outside the fixed label
\* sets is an error: marker_for_psf, the photon_level index lookup, and the
\* selections through valid_psfs and valid_photon_counts.
C10_OutsideLabelLookupIsError ==
    /\ \A name \in OutsidePsfNames : marker_for_psf(name) = "UnboundLocalError"
    /\ ("bar" \in executed /\ ~InList(photon_level, mean_photon_count_list)) =>
         outcome = "IndexError"
    /\ ("scatter" \in executed
        /\ \/ \E i \in 1 .. Len(valid_photon_counts) :
                ~InList(valid_photon_counts[i], mean_photon_count_list)
           \/ \E i \in 1 .. Len(valid_psfs) :
                valid_psfs[i] \notin 0 .. Len(psf_names) - 1) =>
         outcome # "ok"

\* the keys of the artifacts: kind, photon index and psf index over the fixed
\* label sets (the classifier key also holds bias and the model name 'cnn')
Keys == Kinds \X PhotonIdx \X PsfIdx
KeyPath(key) == KindPath(key[1], key[2], key[3])

KeyPaths == {KeyPath(k) : k \in Keys}
DistinctKeysDistinctPaths == \A k1, k2 \in Keys : KeyPath(k1) = KeyPath(k2) => k1 = k2

C12_EachFileReadAtMostOnce == \A f \in DOMAIN loads : loads[f] <= 1

MarkerScatterDone == marker_scatter # <<>>

\* the markers of one psf, in drawing order
PointsOf(points, psf_idx) ==
    LET OfPsf(point) == point.psf_idx = psf_idx
    IN  SelectSeq(points, OfPsf)

\* the index in mean_photon_count_list of a photon count of the list
PhotonIndex(photon_count) == CHOOSE c \in PhotonIdx : mean_photon_count_list[c] = photon_count

\* C13: the sequences passed to one plot call have the same length and are
\* aligned by index. In the scatter cell with the band, for each plotted psf
\* the MI, mean, lower and upper sequences have one entry per selected photon
\* count, entry k of each is that of the k-th selected photon count, and the
\* markers of the psf are the vertices of its dashed line, in order; in the
\* marker_list scatter figures the markers of each psf are the vertices of
\* its dashed line and belong to the same photon counts; the bar chart has
\* one bar per tick label.
C13_AxesAligned ==
    /\ ScatterDone =>
         \A b \in 1 .. Len(scatter.lines) :
           LET line == scatter.lines[b]
               band == scatter.bands[b]
               p == KthOf(PlottedPsfs, b)
               points == PointsOf(scatter.points, p - 1)
               n == Cardinality(SelectedIdx)
           IN  /\ Len(line.x) = n /\ Len(line.y) = n /\ Len(points) = n
               /\ Len(band.x) = n /\ Len(band.lower) = n /\ Len(band.upper) = n
               /\ \A k \in 1 .. n :
                    LET c == KthOf(SelectedIdx, k)
                        trials == ClassifierFile(p, c)
                    IN  /\ points[k].photon_count = mean_photon_count_list[c]
                        /\ points[k].x = line.x[k] /\ points[k].y = line.y[k]
                        /\ band.x[k] = line.x[k]
                        /\ line.x[k] = mi_list_use[p][c]
                        /\ IF trials = <<>>
                           THEN line.y[k] = NaN /\ band.lower[k] = NaN /\ band.upper[k] = NaN
                           ELSE /\ IsMean(line.y[k], trials)
                                /\ IsPercentile(band.lower[k], trials, 5)
                                /\ IsPercentile(band.upper[k], trials, 95)
    /\ MarkerScatterDone =>
         \A f \in 1 .. Len(marker_scatter) :
           /\ Len(marker_scatter[f].lines) = Len(psf_names)
           /\ \A p \in 1 .. Len(marker_scatter[f].lines) :
                LET line == marker_scatter[f].lines[p]
                    points == PointsOf(marker_scatter[f].points, p - 1)
                IN  /\ Len(line.x) = Len(line.y)
                    /\ Len(points) = Len(line.x)
                    /\ \A k \in 1 .. Len(points) :
                         LET c == PhotonIndex(points[k].photon_count)
                         IN  /\ points[k].x = line.x[k] /\ points[k].y = line.y[k]
                             /\ line.x[k] = mi_estimate_lists[f][p][c]
                             /\ line.y[k] = classifier_across_psfs[p][c]
                             /\ k > 1 => PhotonIndex(points[k - 1].photon_count) < c
    /\ "mi_photon_val" \in defined => Len(mi_photon_val) = Len(psf_name_labels)

C13_Witness ==
    /\ ScatterDone
    /\ MarkerScatterDone
    /\ Cardinality(SelectedIdx) \in 2 .. Len(mean_photon_count_list) - 1
    /\ \E b \in 1 .. Len(scatter.lines) :
         \E j, k \in 1 .. Len(scatter.lines[b].x) :
           scatter.lines[b].x[j] # scatter.lines[b].x[k]
    /\ \E f \in 1 .. Len(marker_scatter) : Len(marker_scatter[f].points) > Len(psf_names)

\* what a marker shows: its psf, photon count, shape and color
Drawn(points) ==
    {[psf_idx |-> points[i].psf_idx, photon_count |-> points[i].photon_count,
      marker |-> points[i].marker, color |-> points[i].color] : i \in 1 .. Len(points)}

\* the markers and the legends of all scatter figures on display
AllMarkers ==
    Drawn(scatter.points)
    \cup UNION {Drawn(marker_scatter[f].points) : f \in 1 .. Len(marker_scatter)}
AllLegends == {scatter.legend} \cup {marker_scatter[f].legend : f \in 1 .. Len(marker_scatter)}

\* color a comes before color b in the colormap both are taken from
ColorBefore(a, b) == a.colormap = b.colormap /\ a.at[1] < b.at[1]

C15_GridsIndexedByPsfAndPhoton ==
    /\ ClassifierLoadDone =>
         /\ Len(classifier_all_trials_across_psfs) = Len(psf_names)
         /\ \A p \in PsfIdx :
              /\ Len(classifier_all_trials_across_psfs[p]) = Len(mean_photon_count_list)
              /\ \A c \in PhotonIdx :
                   classifier_all_trials_across_psfs[p][c] = ClassifierFile(p, c)
    /\ MinPlotDone =>
         /\ Len(gaussian_mi_estimates_across_psfs) = Len(psf_names)
         /\ Len(pixelcnn_mi_estimates_across_psfs) = Len(psf_names)
         /\ \A p \in PsfIdx :
              /\ Len(gaussian_mi_estimates_across_psfs[p]) = Len(mean_photon_count_list)
              /\ Len(pixelcnn_mi_estimates_across_psfs[p]) = Len(mean_photon_count_list)
              /\ \A c \in PhotonIdx :
                   /\ gaussian_mi_estimates_across_psfs[p][c] = Least(MIFile("gaussian", p, c))
                   /\ pixelcnn_mi_estimates_across_psfs[p][c] = Least(MIFile("pixelcnn", p, c))

C15_Witness ==
    /\ ClassifierLoadDone
    /\ MinPlotDone
    /\ \E p, q \in PsfIdx, c, d \in PhotonIdx :
         /\ p # q /\ c # d
         /\ classifier_all_trials_across_psfs[p][c] # classifier_all_trials_across_psfs[p][d]
         /\ classifier_all_trials_across_psfs[p][c] # classifier_all_trials_across_psfs[q][c]

\* the numbering of the psfs in the comment on valid_psfs:
\* 0 for uc, 1 for one, 2 for four, 3 for diffuser
CommentedPsfs == <<"uc", "one", "four", "diffuser">>
CommentIndex(psf_name) ==
    (CHOOSE i \in 1 .. Len(CommentedPsfs) : CommentedPsfs[i] = psf_name) - 1

\* C16: the scatter cell plots a psf exactly when the index the comment on
\* valid_psfs gives its name is in valid_psfs, and the classifier grid it
\* reads has 4 psfs and 9 photon counts, as the cell's comment says.
C16_ValidPsfsAsCommented ==
    ScatterDone =>
      /\ \A p \in PsfIdx :
           (\E b \in 1 .. Len(scatter.lines) : scatter.lines[b].psf_name = psf_names[p])
             <=> InList(CommentIndex(psf_names[p]), valid_psfs)
      /\ Len(classifier_all_trials_across_psfs) = Len(CommentedPsfs)
      /\ \A p \in 1 .. Len(classifier_all_trials_across_psfs) :
           Len(classifier_all_trials_across_psfs[p]) = Len(mean_photon_count_list)

ThresholdsFromOne == 1 .. MaxThreshold

\* C17: for v with min(v) > 0 and a threshold t >= 1 the clip keeps the
\* minimum, minimum_aggregate after the clip equals minimum_aggregate before
\* it, and clipping twice equals clipping once: for every file content at
\* every threshold, and for the arrays the mean-plot cell clipped against
\* the minimums the min-plot cell took from the same files.
C17_ClipKeepsMinimumAndIsIdempotent ==
    /\ \A v \in NonEmptyContents, t \in ThresholdsFromOne :
         Least(v) > 0 =>
           LET r == outlier_clip(v, t)
           IN  /\ Least(r) = Least(v)
               /\ minimum_aggregate(<<r>>) = minimum_aggregate(<<v>>)
               /\ outlier_clip(r, t) = r
    /\ MeanPlotDone =>
         \A c \in PhotonIdx :
           Least(ClippedFile(c)) > 0 =>
             /\ np_min(pixelcnn_across_photons[c])
                  = pixelcnn_mi_estimates_across_psfs[Len(psf_names)][c]
             /\ outlier_clip(pixelcnn_across_photons[c], ratio_threshold)
                  = pixelcnn_across_photons[c]

C17_Witness ==
    /\ MeanPlotDone
    /\ \E c \in PhotonIdx :
         /\ Least(ClippedFile(c)) > 0
         /\ pixelcnn_across_photons[c] # ClippedFile(c)
         /\ Greatest(pixelcnn_across_photons[c])
              = pixelcnn_mi_estimates_across_psfs[Len(psf_names)][c]

\* a step that runs the mean-plot cell, in its turn or again
MeanPlotStep == MeanPlotCell \/ RerunMeanPlotCell

EstimatorNames == <<"gaussian", "pixelcnn">>

\* C18: the in-place clip of the mean-plot cell changes only the arrays the
\* cell loaded itself. Every run of the cell, in its turn or again at any
\* later point, leaves the files on disk, the two minimum grids, the
\* classifier grids and the figures already drawn unchanged; so at all times
\* after the min-plot cell the minimum grids hold the minimum of each file as
\* it is on disk, and every marker of the scatter figures sits at the minimum
\* of the unclipped file (and the mean of the classifier file) of its psf and
\* photon count, whether the mean-plot cell ran, was skipped or ran again.
C18_MeanPlotCellLeavesGridsAndDisk ==
    /\ [][MeanPlotStep =>
            /\ disk' = disk
            /\ gaussian_mi_estimates_across_psfs' = gaussian_mi_estimates_across_psfs
            /\ pixelcnn_mi_estimates_across_psfs' = pixelcnn_mi_estimates_across_psfs
            /\ classifier_all_trials_across_psfs' = classifier_all_trials_across_psfs
            /\ classifier_across_photons' = classifier_across_photons
            /\ classifier_across_psfs' = classifier_across_psfs
            /\ scatter' = scatter
            /\ marker_scatter' = marker_scatter]_vars
    /\ [](MinPlotDone =>
            \A p \in PsfIdx, c \in PhotonIdx :
              /\ gaussian_mi_estimates_across_psfs[p][c] = np_min(MIFile("gaussian", p, c))
              /\ pixelcnn_mi_estimates_across_psfs[p][c] = np_min(MIFile("pixelcnn", p, c)))
    /\ [](ScatterDone =>
            \A i \in 1 .. Len(scatter.points) :
              LET point == scatter.points[i]
                  p == point.psf_idx + 1
                  c == PhotonIndex(point.photon_count)
              IN  /\ point.x = np_min(MIFile(EstimatorNames[estimator_type + 1], p, c))
                  /\ point.y = np_mean(ClassifierFile(p, c)))
    /\ [](MarkerScatterDone =>
            \A mi_idx \in 1 .. Len(marker_scatter) :
              \A i \in 1 .. Len(marker_scatter[mi_idx].points) :
                LET point == marker_scatter[mi_idx].points[i]
                    p == point.psf_idx + 1
                    c == PhotonIndex(point.photon_count)
                IN  point.x = np_min(MIFile(EstimatorNames[mi_idx], p, c)))

\* the mean-plot cell ran at least twice and clipped an array, and both
\* kinds of scatter figure are drawn
C18_Witness ==
    /\ MeanPlotDone
    /\ ScatterDone
    /\ MarkerScatterDone
    /\ Len(scatter.points) > 0
    /\ \E c \in PhotonIdx :
         /\ pixelcnn_across_photons[c] # ClippedFile(c)
         /\ loads[mi_path("pixelcnn", mean_photon_count_list[c], psf_names[Len(psf_names)])]
              = MaxLoads

====
